---- MODULE Spec2Model ----
(***************************************************************************)
(* Model of hpmc::detail::OBBTree<node_capacity> (hoomd/hpmc/OBBTree.h):   *)
(* the node arena, the reverse mapping, the recursive builder, the skip    *)
(* computation, the stackless query, update and height.                    *)
(*                                                                         *)
(* Geometry.  OBB.h is not part of the sources at hand, so the OBB         *)
(* primitive is modelled from its specified contract, in one dimension:    *)
(* an OBB is a closed interval [lo, hi] of the integer line together with  *)
(* the sign of its single axis, its corners are its two end points, the    *)
(* fitter returns the tightest interval around a point cloud inflated by   *)
(* the vertex radius, and two OBBs overlap when the intervals meet.        *)
(* Arrays keep the 0-based indices of the source.                          *)
(***************************************************************************)
EXTENDS Integers, Sequences, FiniteSets, TLC

\* ------------------------------------------------------------------ bounds
\* largest number of particles handed to buildTree in the exhaustive inputs
MaxN == 3
\* largest leaf capacity (the template parameter node_capacity)
MaxCapacity == 2
\* number of distinct boxes a particle may have
MaxBox == 2
\* largest vertex radius handed to buildTree
MaxRadius == 1
\* updates allowed between two builds
MaxUpdates == 1
\* the posix_memalign calls of one buildTree that may be chosen to fail
MaxGrowths == 2
\* largest number of particles of the patterned (large) inputs
MaxBigN == 9

\* ------------------------------------------------------- program constants
\* 0xffffffff in the source, the largest unsigned int; here the largest
\* integer the checker has.  It is only compared with node indices.
OBB_INVALID_NODE == 2147483647
SeedCapacity == 16

\* value of memory that was never written (posix_memalign, a default
\* constructed array member); the code never reads it
Indeterminate == "indeterminate"

VARIABLES
    node_capacity,      \* template parameter of the tree
    fit_axis,           \* sign convention of the fitter's principal axis
    m_nodes,            \* the arena: 0..m_node_capacity-1 -> node record
    m_num_nodes,
    m_node_capacity,
    m_root,
    m_mapping,          \* 0..N-1 -> arena index of the leaf
    in_obbs,            \* the obbs array as handed to the last buildTree
    in_coords,          \* its internal_coordinates
    in_radius,          \* its vertex_radius
    phase,              \* "new", "built", "updated", "failed" (the last build threw) or "diverged"
    built_under,        \* node -> the parent argument of the call that allocated it
    built_calls,        \* node -> the range and the partition of that call
    updates,            \* updates since the last build
    op,                 \* the last call made on the tree
    arg_idx,            \* its particle argument
    arg_obb,            \* its OBB argument
    hits_in,            \* the hits vector handed to query
    tested,             \* the nodes the last query read, in the order read
    hits,               \* the hits vector after query
    ret                 \* the value the last call returned

vars == <<node_capacity, fit_axis, m_nodes, m_num_nodes, m_node_capacity, m_root,
          m_mapping, in_obbs, in_coords, in_radius, phase, built_under, built_calls, updates,
          op, arg_idx, arg_obb,
          hits_in, tested, hits, ret>>

\* ---------------------------------------------------------------- helpers
Min(S) == CHOOSE x \in S : \A y \in S : x <= y
Max(S) == CHOOSE x \in S : \A y \in S : x >= y
Range(f) == {f[i] : i \in DOMAIN f}
\* a 0-based array of n entries
Arr(n, F(_)) == [i \in 0..(n-1) |-> F(i)]
Size(a) == Cardinality(DOMAIN a)
Swap(a, i, j) == [a EXCEPT ![i] = a[j], ![j] = a[i]]
\* F applied to the value v, v being computed once
With(v, F(_)) == CHOOSE y \in {F(x) : x \in {v}} : TRUE

\* ------------------------------------------------------ the OBB primitive
\* an OBB over the points lo..hi; defined = FALSE for a box whose fields were
\* never given a meaning (the fit of no points, a default constructed box)
OBB(lo, hi, rot) == [lo |-> lo, hi |-> hi, rot |-> rot, defined |-> TRUE]
UndefinedOBB == [lo |-> 0, hi |-> 0, rot |-> 1, defined |-> FALSE]

\* OBB::getCorners
getCorners(obb) == <<obb.lo, obb.hi>>

\* twice the center, to stay in the integers
center2(obb) == obb.lo + obb.hi

\* compute_obb(points, vertex_radius): the tightest box, inflated
compute_obb(pts, vertex_radius, axis) ==
    IF pts = <<>> THEN UndefinedOBB
    ELSE OBB(Min(Range(pts)) - vertex_radius, Max(Range(pts)) + vertex_radius, axis)

\* overlap(a, b); the outcome on a box without meaning is the caller's choice u
overlap(a, b, u) ==
    IF a.defined /\ b.defined THEN a.lo <= b.hi /\ b.lo <= a.hi ELSE u

\* the boxes particles are drawn from (disjoint unit boxes), and the query
\* boxes (the points they cover)
ParticleBoxes == {OBB(2 * c, 2 * c + 1, 1) : c \in 0..(MaxBox - 1)}
QueryBoxes == {OBB(c, c, 1) : c \in 0..(2 * MaxBox - 1)}

\* ------------------------------------------------------------- OBBNode
\* OBBNode::OBBNode(): obb and particles[] are not given a value
DefaultNode(cap) ==
    [obb |-> UndefinedOBB,
     left |-> OBB_INVALID_NODE, right |-> OBB_INVALID_NODE, parent |-> OBB_INVALID_NODE,
     skip |-> 0,
     particles |-> Arr(cap, LAMBDA i : Indeterminate),
     num_particles |-> 0]

\* a slot of the arena that was never assigned a node
UninitNode == [uninit |-> TRUE]

\* ------------------------------------------------------------- builder
\* The builder works on a record t of the tree's fields and buildTree's
\* locals:  nodes, num, cap (m_nodes, m_num_nodes, m_node_capacity), mapping,
\* the scratch arrays obbs, coords (internal_coordinates) and idx,
\* vertex_radius, capacity (the template parameter) and axis (the fitter's
\* sign);  oom is the number of the posix_memalign call that fails (0: none)
\* and growths counts the calls made;  failed says that the exception is
\* propagating;  ret is the value the last call returned;  under records for
\* each node the parent argument it was allocated under.

\* OBBTree::allocateNode with the slot's reset left out (mutant)
allocateNode_noreset(t) ==
    IF t.num >= t.cap /\ t.oom = t.growths + 1
    THEN [t EXCEPT !.failed = TRUE, !.growths = @ + 1]
    ELSE LET newcap == IF t.cap * 2 = 0 THEN SeedCapacity ELSE t.cap * 2
             g == IF t.num >= t.cap
                  THEN [t EXCEPT !.nodes = Arr(newcap, LAMBDA i : IF i < t.num THEN t.nodes[i]
                                                                   ELSE DefaultNode(t.capacity)),
                                 !.cap = newcap, !.growths = @ + 1]
                  ELSE [t EXCEPT !.nodes[t.num] = IF @ = UninitNode
                                                  THEN DefaultNode(t.capacity) ELSE @]
         IN [g EXCEPT !.num = @ + 1, !.ret = t.num]

\* OBBTree::allocateNode
allocateNode(t) ==
    IF t.num >= t.cap /\ t.oom = t.growths + 1
    THEN \* posix_memalign returned nonzero: throw
         [t EXCEPT !.failed = TRUE, !.growths = @ + 1]
    ELSE LET newcap == IF t.cap * 2 = 0 THEN SeedCapacity ELSE t.cap * 2
             g == IF t.num >= t.cap
                  THEN \* memcpy of the m_num_nodes records in use; the rest is new memory
                       [t EXCEPT !.nodes = Arr(newcap, LAMBDA i : IF i < t.num THEN t.nodes[i]
                                                                   ELSE UninitNode),
                                 !.cap = newcap, !.growths = @ + 1]
                  ELSE t
         IN [g EXCEPT !.nodes[t.num] = DefaultNode(t.capacity),
                      !.num = @ + 1, !.ret = t.num]

\* the vertices of the particles at start..start+len-1, concatenated
RECURSIVE merge(_, _, _)
merge(coords, start, len) ==
    IF len = 0 THEN <<>>
    ELSE merge(coords, start, len - 1) \o coords[start + len - 1]

\* the leaf case of buildNode that maps the particles to the parent (mutant)
makeLeaf_mapparent(t, my_obb, start, len, parent) ==
    LET new_node == t.ret
        ps == [i \in 0..(t.capacity - 1) |->
                 IF i < len THEN t.idx[start + i] ELSE t.nodes[new_node].particles[i]]
    IN [t EXCEPT !.nodes[new_node].obb = my_obb,
                 !.nodes[new_node].parent = parent,
                 !.nodes[new_node].num_particles = len,
                 !.nodes[new_node].particles = ps,
                 !.mapping = [p \in DOMAIN t.mapping |->
                                IF \E i \in 0..(len - 1) : t.idx[start + i] = p
                                THEN parent ELSE t.mapping[p]]]

\* the leaf case of buildNode that leaves the parent unset (mutant)
makeLeaf_noparent(t, my_obb, start, len, parent) ==
    LET new_node == t.ret
        ps == [i \in 0..(t.capacity - 1) |->
                 IF i < len THEN t.idx[start + i] ELSE t.nodes[new_node].particles[i]]
    IN [t EXCEPT !.nodes[new_node].obb = my_obb,
                 !.nodes[new_node].num_particles = len,
                 !.nodes[new_node].particles = ps,
                 !.mapping = [p \in DOMAIN t.mapping |->
                                IF \E i \in 0..(len - 1) : t.idx[start + i] = p
                                THEN new_node ELSE t.mapping[p]]]

\* the leaf case of buildNode, after the allocation: new_node is t.ret
makeLeaf(t, my_obb, start, len, parent) ==
    LET new_node == t.ret
        ps == [i \in 0..(t.capacity - 1) |->
                 IF i < len THEN t.idx[start + i] ELSE t.nodes[new_node].particles[i]]
    IN [t EXCEPT !.nodes[new_node].obb = my_obb,
                 !.nodes[new_node].parent = parent,
                 !.nodes[new_node].num_particles = len,
                 !.nodes[new_node].particles = ps,
                 !.mapping = [p \in DOMAIN t.mapping |->
                                IF \E i \in 0..(len - 1) : t.idx[start + i] = p
                                THEN new_node ELSE t.mapping[p]]]

\* the partition sweep of buildNode: the loop over i with its start_right;
\* t.steps counts the passes through the loop's body
RECURSIVE sweep(_, _, _, _, _)
sweep(t, my_obb, start, i, start_right) ==
    IF ~(i < start_right) THEN [t |-> t, start_right |-> start_right]
    ELSE LET proj2 == t.axis * (center2(t.obbs[start + i]) - center2(my_obb))
         IN IF proj2 < 0
            THEN sweep([t EXCEPT !.steps = @ + 1], my_obb, start, i + 1, start_right)
            ELSE LET j == start + start_right - 1
                     u == [t EXCEPT !.obbs = Swap(@, start + i, j),
                                    !.idx = Swap(@, start + i, j),
                                    !.coords = Swap(@, start + i, j),
                                    !.steps = @ + 1]
                 IN sweep(u, my_obb, start, i, start_right - 1)

\* the partition without the sanity check: an empty side stays empty (mutant)
borrow_none(start_right, len) == start_right

\* the sanity check after the sweep: borrow one particle for an empty side
borrow(start_right, len) ==
    LET a == IF start_right = len THEN len - 1 ELSE start_right
    IN IF a = 0 THEN 1 ELSE a

\* the writes that end the internal case of buildNode, with the children
\* exchanged (mutant)
connect_swapped(t, my_idx, my_obb, parent, new_left, new_right) ==
    [t EXCEPT !.nodes[my_idx].obb = my_obb,
              !.nodes[my_idx].parent = parent,
              !.nodes[my_idx].left = new_right,
              !.nodes[my_idx].right = new_left,
              !.ret = my_idx]

\* the writes that end the internal case of buildNode
connect(t, my_idx, my_obb, parent, new_left, new_right) ==
    [t EXCEPT !.nodes[my_idx].obb = my_obb,
              !.nodes[my_idx].parent = parent,
              !.nodes[my_idx].left = new_left,
              !.nodes[my_idx].right = new_right,
              !.ret = my_idx]

\* the node just allocated in a (a.ret) is noted as allocated under parent
noteUnder(a, parent) ==
    [a EXCEPT !.under = Arr(a.num, LAMBDA k : IF k = a.ret THEN parent ELSE a.under[k])]

\* the call buildNode(start, len) that allocated the node a.ret is noted
noteCall(a, start, len) ==
    [a EXCEPT !.calls = Arr(a.num, LAMBDA k :
                           IF k = a.ret
                           THEN [start |-> start, len |-> len, swept |-> 0,
                                 start_right |-> 0, steps |-> 0]
                           ELSE a.calls[k])]

\* the partition of the call that allocated my_idx is noted: start_right as
\* the sweep left it (swept) and after the sanity check, and the passes
\* the sweep made
noteSplit(t, my_idx, swept, start_right, steps) ==
    [t EXCEPT !.calls[my_idx].swept = swept,
              !.calls[my_idx].start_right = start_right,
              !.calls[my_idx].steps = steps]

\* the calls of buildNode one buildTree on N particles is followed for: a
\* binary tree of non-empty leaves has at most 2N - 1 nodes
MaxCalls(N) == 2 * N + 1

\* the internal case of buildNode after the allocation of my_idx = a.ret:
\* the partition, the two recursive calls and the writes
RECURSIVE buildNode(_, _, _, _)
splitNode(a, my_obb, start, len, parent) ==
    With(IF len = 2 THEN [t |-> a, start_right |-> len]
         ELSE sweep(a, my_obb, start, 0, len),
    LAMBDA s :
    With(borrow(s.start_right, len),
    LAMBDA start_right :
    With(buildNode(noteSplit(s.t, a.ret, s.start_right, start_right,
                             s.t.steps - a.steps),
                   start, start_right, a.ret),
    LAMBDA l :
    With(buildNode(l, start + start_right, len - start_right, a.ret),
    LAMBDA r :
        IF r.failed THEN r
        ELSE connect(r, a.ret, my_obb, parent, l.ret, r.ret)))))

\* OBBTree::buildNode; a call made while the exception propagates does
\* nothing, and the recursion is cut, as diverged, past MaxCalls calls
buildNode(t, start, len, parent) ==
    IF t.failed THEN t
    ELSE IF t.ncalls >= MaxCalls(Size(t.idx))
    THEN [t EXCEPT !.failed = TRUE, !.diverged = TRUE]
    ELSE
    With(compute_obb(merge(t.coords, start, len), t.vertex_radius, t.axis),
    LAMBDA my_obb :
    With(allocateNode([t EXCEPT !.ncalls = @ + 1]),
    LAMBDA a0 :
        IF a0.failed THEN a0
        ELSE With(noteCall(noteUnder(a0, parent), start, len),
             LAMBDA a :
                IF len <= a.capacity THEN makeLeaf(a, my_obb, start, len, parent)
                ELSE splitNode(a, my_obb, start, len, parent))))

\* OBBTree::isNodeLeaf
isNodeLeaf(nodes, node) == nodes[node].left = OBB_INVALID_NODE

\* OBBTree::updateSkip that counts the node itself (mutant)
RECURSIVE updateSkip_self(_, _)
updateSkip_self(nodes, idx) ==
    IF isNodeLeaf(nodes, idx) THEN [nodes |-> nodes, ret |-> 1]
    ELSE With(updateSkip_self(nodes, nodes[idx].left),
         LAMBDA l :
         With(updateSkip_self(l.nodes, nodes[idx].right),
         LAMBDA r :
            [nodes |-> [r.nodes EXCEPT ![idx].skip = l.ret + r.ret + 1],
             ret |-> l.ret + r.ret + 2]))

\* OBBTree::updateSkip
RECURSIVE updateSkip(_, _)
updateSkip(nodes, idx) ==
    IF isNodeLeaf(nodes, idx) THEN [nodes |-> nodes, ret |-> 1]
    ELSE With(updateSkip(nodes, nodes[idx].left),
         LAMBDA l :
         With(updateSkip(l.nodes, nodes[idx].right),
         LAMBDA r :
            [nodes |-> [r.nodes EXCEPT ![idx].skip = l.ret + r.ret],
             ret |-> l.ret + r.ret + 1]))

\* the tree's fields as a record
Tree == [nodes |-> m_nodes, num |-> m_num_nodes, cap |-> m_node_capacity,
         root |-> m_root, mapping |-> m_mapping]

\* OBBTree::OBBTree(): m_nodes(0), m_num_nodes(0), m_node_capacity(0), m_root(0)
NewTree == [nodes |-> <<>>, num |-> 0, cap |-> 0, root |-> 0, mapping |-> <<>>]

\* OBBTree::init
init(tree, N) ==
    [tree EXCEPT !.num = 0,
                 !.root = OBB_INVALID_NODE,
                 !.mapping = Arr(N, LAMBDA i : OBB_INVALID_NODE)]

\* OBBTree::buildTree(obbs, internal_coordinates, vertex_radius, N) for a tree
\* of leaf capacity `capacity` and a fitter of sign `axis`, the oom-th
\* posix_memalign failing.  m_root is assigned, and updateSkip is run, only
\* when buildNode returns.
\* With N = 0 buildNode is called with len = 0: it copies obbs[0], which the
\* caller need not have, fits a box to no points and makes a leaf of it.
buildTreeCoords(tree, obbs, internal_coordinates, vertex_radius, N, capacity, axis, oom) ==
    LET i0 == init(tree, N)
        t0 == [nodes |-> i0.nodes, num |-> i0.num, cap |-> i0.cap, root |-> i0.root,
               mapping |-> i0.mapping,
               obbs |-> obbs, coords |-> internal_coordinates,
               idx |-> Arr(N, LAMBDA i : i),
               vertex_radius |-> vertex_radius, capacity |-> capacity, axis |-> axis,
               oom |-> oom, growths |-> 0, failed |-> FALSE, ret |-> 0,
               under |-> <<>>, calls |-> <<>>, ncalls |-> 0, steps |-> 0,
               diverged |-> FALSE]
    IN With(buildNode(t0, 0, N, OBB_INVALID_NODE),
       LAMBDA b :
          IF b.failed THEN b
          ELSE [b EXCEPT !.root = b.ret, !.nodes = updateSkip(b.nodes, b.ret).nodes])

\* OBBTree::buildTree(obbs, N): the vertices are the corners of the boxes
buildTree(tree, obbs, N, capacity, axis, oom) ==
    buildTreeCoords(tree, obbs, Arr(N, LAMBDA i : getCorners(obbs[i])), 0,
                    N, capacity, axis, oom)

\* ---------------------------------------------------------------- query
\* the body of query's loop that pushes the particles before the test (mutant)
visit_pushfirst(current_node, current_node_idx, h, obb, u) ==
    LET pushed == IF current_node.left = OBB_INVALID_NODE
                  THEN h \o [i \in 1..current_node.num_particles |->
                                current_node.particles[i - 1]]
                  ELSE h
    IN IF overlap(current_node.obb, obb, u)
       THEN [hits |-> pushed, next |-> current_node_idx + 1]
       ELSE [hits |-> pushed, next |-> current_node_idx + current_node.skip + 1]

\* the body of query's loop that skips one node too many (mutant)
visit_skipfar(current_node, current_node_idx, h, obb, u) ==
    IF overlap(current_node.obb, obb, u)
    THEN [hits |-> IF current_node.left = OBB_INVALID_NODE
                   THEN h \o [i \in 1..current_node.num_particles |->
                                 current_node.particles[i - 1]]
                   ELSE h,
          next |-> current_node_idx + 1]
    ELSE [hits |-> h, next |-> current_node_idx + current_node.skip + 2]

\* the body of query's loop that never skips ahead (mutant)
visit_noskip(current_node, current_node_idx, h, obb, u) ==
    IF overlap(current_node.obb, obb, u)
    THEN [hits |-> IF current_node.left = OBB_INVALID_NODE
                   THEN h \o [i \in 1..current_node.num_particles |->
                                 current_node.particles[i - 1]]
                   ELSE h,
          next |-> current_node_idx + 1]
    ELSE [hits |-> h, next |-> current_node_idx + 1]

\* the body of query's loop at current_node: the hits, and the index the loop
\* goes on with (the skip ahead and the loop's increment)
visit(current_node, current_node_idx, h, obb, u) ==
    IF overlap(current_node.obb, obb, u)
    THEN [hits |-> IF current_node.left = OBB_INVALID_NODE
                   THEN h \o [i \in 1..current_node.num_particles |->
                                 current_node.particles[i - 1]]
                   ELSE h,
          next |-> current_node_idx + 1]
    ELSE [hits |-> h, next |-> current_node_idx + current_node.skip + 1]

\* OBBTree::query: the loop from current_node_idx on, box_overlap_counts
\* tests having been made, on the nodes of index seen, in that order
RECURSIVE queryFrom(_, _, _, _, _, _, _, _)
queryFrom(nodes, num_nodes, current_node_idx, h, box_overlap_counts, seen, obb, u) ==
    IF ~(current_node_idx < num_nodes)
    THEN [hits |-> h, ret |-> box_overlap_counts, tested |-> seen]
    ELSE With(visit(nodes[current_node_idx], current_node_idx, h, obb, u),
         LAMBDA v :
            queryFrom(nodes, num_nodes, v.next, v.hits, box_overlap_counts + 1,
                      Append(seen, current_node_idx), obb, u))

query(tree, h, obb, u) == queryFrom(tree.nodes, tree.num, 0, h, 0, <<>>, obb, u)

\* --------------------------------------------------------------- height
\* OBBTree::height: the walk up from current_node having counted h; the walk
\* is cut after fuel steps, with 0 - 1 for an answer
RECURSIVE climb(_, _, _, _)
climb(nodes, current_node, h, fuel) ==
    IF current_node = OBB_INVALID_NODE THEN h
    ELSE IF fuel = 0 THEN 0 - 1
    ELSE climb(nodes, nodes[current_node].parent, h + 1, fuel - 1)

\* OBBTree::height that does not count the leaf (mutant)
height_hops(tree, idx) ==
    LET node_idx == tree.mapping[idx]
    IN IF node_idx = OBB_INVALID_NODE THEN 0
       ELSE climb(tree.nodes, tree.nodes[node_idx].parent, 0, tree.num)

\* OBBTree::height
height(tree, idx) ==
    LET node_idx == tree.mapping[idx]
    IN IF node_idx = OBB_INVALID_NODE THEN 0
       ELSE climb(tree.nodes, tree.nodes[node_idx].parent, 1, tree.num)

\* --------------------------------------------------------------- update
\* OBBTree::update is declared (OBBTree.h:116) and not defined in the sources
\* at hand; it is modelled from its specified contract: the box of the
\* particle's leaf is rewritten, nothing is refitted

\* update that also rewrites the box of the leaf's parent (mutant)
update_refit(tree, idx, obb) ==
    LET leaf == tree.mapping[idx]
        up == tree.nodes[leaf].parent
        w == [tree EXCEPT !.nodes[leaf].obb = obb]
    IN IF up = OBB_INVALID_NODE THEN w ELSE [w EXCEPT !.nodes[up].obb = obb]

update(tree, idx, obb) ==
    [tree EXCEPT !.nodes[tree.mapping[idx]].obb = obb]

\* ------------------------------------------------------------ the calls
\* the arrays of at most n boxes out of `boxes`
ArraysOf(boxes, n) == UNION {[0..(k - 1) -> boxes] : k \in 0..n}

\* the arrays of obbs handed to buildTree
Inputs == ArraysOf(ParticleBoxes, MaxN)

\* large arrays: the first k boxes at one place, the others at another
BigInputs ==
    {Arr(n, LAMBDA i : IF i < k THEN OBB(0, 1, 1) ELSE OBB(2, 3, 1)) :
        n \in (MaxBigN - 1)..MaxBigN, k \in 0..MaxBigN}

\* the vertex lists a caller may hand in for a particle of box obb, by kind
Vertices(obb, kind) == IF kind = 1 THEN <<obb.lo>> ELSE getCorners(obb)

\* the hits vectors handed to query
HitsIn == {<<>>, <<0>>}

Init ==
    /\ node_capacity \in 1..MaxCapacity
    /\ fit_axis \in {1, 0 - 1}
    /\ m_nodes = NewTree.nodes
    /\ m_num_nodes = NewTree.num
    /\ m_node_capacity = NewTree.cap
    /\ m_root = NewTree.root
    /\ m_mapping = NewTree.mapping
    /\ in_obbs = <<>>
    /\ in_coords = <<>>
    /\ in_radius = 0
    /\ phase = "new"
    /\ built_under = <<>>
    /\ built_calls = <<>>
    /\ updates = 0
    /\ op = "new"
    /\ arg_idx = 0
    /\ arg_obb = UndefinedOBB
    /\ hits_in = <<>>
    /\ tested = <<>>
    /\ hits = <<>>
    /\ ret = 0

\* the state a buildTree call that ended as b leaves
Built(b, obbs, coords, radius, name) ==
    /\ m_nodes' = b.nodes
    /\ m_num_nodes' = b.num
    /\ m_node_capacity' = b.cap
    /\ m_root' = b.root
    /\ m_mapping' = b.mapping
    /\ in_obbs' = obbs
    /\ in_coords' = coords
    /\ in_radius' = radius
    /\ phase' = IF b.diverged THEN "diverged" ELSE IF b.failed THEN "failed" ELSE "built"
    /\ built_under' = b.under
    /\ built_calls' = b.calls
    /\ updates' = 0
    /\ op' = name
    /\ arg_idx' = 0
    /\ arg_obb' = UndefinedOBB
    /\ hits_in' = <<>>
    /\ tested' = <<>>
    /\ hits' = <<>>
    /\ ret' = 0
    /\ UNCHANGED <<node_capacity, fit_axis>>

\* buildTree(obbs, N) on the arrays of `inputs`; any posix_memalign call the
\* build makes may be the one that fails
BuildTreeOf(inputs) ==
    \E obbs \in inputs :
        LET N == Size(obbs)
            coords == Arr(N, LAMBDA i : getCorners(obbs[i]))
        IN \E ok \in {buildTree(Tree, obbs, N, node_capacity, fit_axis, 0)} :
           \E oom \in 0..MaxGrowths :
              /\ oom <= ok.growths
              /\ \E b \in {IF oom = 0 THEN ok
                            ELSE buildTree(Tree, obbs, N, node_capacity, fit_axis, oom)} :
                    Built(b, obbs, coords, 0, "buildTree")

\* buildTree(obbs, internal_coordinates, vertex_radius, N) on the arrays of
\* `inputs`, with one vertex or the two corners for every particle
BuildTreeCoordsOf(inputs) ==
    \E obbs \in inputs, kind \in 1..2, radius \in 0..MaxRadius :
        LET N == Size(obbs)
            coords == Arr(N, LAMBDA i : Vertices(obbs[i], kind))
        IN \E ok \in {buildTreeCoords(Tree, obbs, coords, radius, N,
                                       node_capacity, fit_axis, 0)} :
           \E oom \in 0..MaxGrowths :
              /\ oom <= ok.growths
              /\ \E b \in {IF oom = 0 THEN ok
                            ELSE buildTreeCoords(Tree, obbs, coords, radius, N,
                                                 node_capacity, fit_axis, oom)} :
                    Built(b, obbs, coords, radius, "buildTreeCoords")

BuildTree == BuildTreeOf(Inputs)
BuildTreeCoords == BuildTreeCoordsOf(Inputs)
BuildTreeBig == BuildTreeOf(BigInputs)

\* what the overlap test may answer on a box without meaning, where the
\* tree has one
UndefinedOutcomes ==
    IF \E k \in 0..(m_num_nodes - 1) : ~m_nodes[k].obb.defined THEN BOOLEAN ELSE {FALSE}

\* query(hits, obb)
Query ==
    \E h \in HitsIn, obb \in QueryBoxes, u \in UndefinedOutcomes :
        \E r \in {query(Tree, h, obb, u)} :
           /\ op' = "query"
           /\ arg_obb' = obb
           /\ hits_in' = h
           /\ tested' = r.tested
           /\ hits' = r.hits
           /\ ret' = r.ret
           /\ arg_idx' = 0
           /\ UNCHANGED <<node_capacity, fit_axis, m_nodes, m_num_nodes, m_node_capacity,
                          m_root, m_mapping, in_obbs, in_coords, in_radius, phase,
                          built_under, built_calls, updates>>

\* update(idx, obb), for idx < m_mapping.size(); an unplaced particle is
\* refused (UnknownParticle)
Update ==
    /\ updates < MaxUpdates
    /\ \E idx \in DOMAIN m_mapping, obb \in ParticleBoxes :
        LET known == m_mapping[idx] # OBB_INVALID_NODE
        IN \E w \in {IF known THEN update(Tree, idx, obb) ELSE Tree} :
           /\ m_nodes' = w.nodes
           /\ m_num_nodes' = w.num
           /\ m_node_capacity' = w.cap
           /\ m_root' = w.root
           /\ m_mapping' = w.mapping
           /\ updates' = updates + 1
           /\ phase' = IF known THEN "updated" ELSE phase
           /\ op' = IF known THEN "update" ELSE "unknown_particle"
           /\ arg_idx' = idx
           /\ arg_obb' = obb
           /\ hits_in' = <<>>
           /\ tested' = <<>>
           /\ hits' = <<>>
           /\ ret' = 0
           /\ UNCHANGED <<node_capacity, fit_axis, in_obbs, in_coords, in_radius,
                          built_under, built_calls>>

\* height(idx), for idx < m_mapping.size() (the assertion)
Height ==
    \E idx \in DOMAIN m_mapping :
        /\ op' = "height"
        /\ arg_idx' = idx
        /\ ret' = height(Tree, idx)
        /\ arg_obb' = UndefinedOBB
        /\ hits_in' = <<>>
        /\ tested' = <<>>
        /\ hits' = <<>>
        /\ UNCHANGED <<node_capacity, fit_axis, m_nodes, m_num_nodes, m_node_capacity,
                       m_root, m_mapping, in_obbs, in_coords, in_radius, phase,
                       built_under, built_calls, updates>>

\* a tree that is built, queried, updated and measured
Next == BuildTree \/ Query \/ Update \/ Height
Spec == Init /\ [][Next]_vars

\* a tree that is built over and over, by both overloads
NextBuild == BuildTree \/ BuildTreeCoords
SpecBuild == Init /\ [][NextBuild]_vars

\* a tree large enough for its arena to grow twice
NextAlloc == BuildTreeBig
SpecAlloc == Init /\ [][NextAlloc]_vars

\* ===================================================================
\* The properties
\* ===================================================================
\* number of particles of the last build
N == Size(in_obbs)
\* the last buildTree call returned (and did not throw)
Complete == phase \in {"built", "updated"}
\* the allocated nodes
Nodes == 0..(m_num_nodes - 1)
IsLeaf(k) == m_nodes[k].left = OBB_INVALID_NODE
\* the particles stored in node k
Stored(k) == {m_nodes[k].particles[i] : i \in 0..(m_nodes[k].num_particles - 1)}
\* what the last query appended to hits
Appended == SubSeq(hits, Len(hits_in) + 1, Len(hits))
\* the boxes a and b, both with a meaning, overlap
Overlaps(a, b) == overlap(a, b, FALSE)
\* a slot past the tree holds a node of an earlier, larger tree
StaleNodes == {k \in m_num_nodes..(m_node_capacity - 1) : m_nodes[k] # UninitNode}

\* C1 -- query completeness: after buildTree(obbs, N), N >= 1, and no update,
\* query appends every particle whose own box overlaps the query box.
QueryComplete ==
    (op = "query" /\ phase = "built" /\ N >= 1) =>
        \A p \in 0..(N - 1) :
            Overlaps(in_obbs[p], arg_obb) => p \in Range(Appended)

\* C1 witness: a query of a tree of three particles that pruned a subtree,
\* found a particle and left one out.
QueryCompleteWitness ==
    /\ op = "query" /\ phase = "built" /\ N = 3
    /\ ret < m_num_nodes
    /\ \E p \in 0..(N - 1) : Overlaps(in_obbs[p], arg_obb) /\ p \in Range(Appended)
    /\ \E p \in 0..(N - 1) : ~Overlaps(in_obbs[p], arg_obb) /\ p \notin Range(Appended)

EmptyBuildEmptyTree ==
    /\ (op = "buildTree" /\ phase = "built" /\ N = 0) =>
           (m_num_nodes = 0 /\ m_root = OBB_INVALID_NODE)
    /\ (op = "query" /\ phase = "built" /\ N = 0) =>
           (ret = 0 /\ hits = hits_in)

\* the slots of the nodes that hold a particle
Slots == {<<k, i>> \in Nodes \X (0..(node_capacity - 1)) : i < m_nodes[k].num_particles}

\* C4 -- coverage and mapping: after buildTree with N >= 1 every particle of
\* 0..N-1 is stored in exactly one slot of exactly one leaf, mapping names
\* that leaf, and no leaf stores anything else.
CoverageAndMapping ==
    (Complete /\ N >= 1) =>
        /\ \A p \in 0..(N - 1) :
              /\ Cardinality({s \in Slots : m_nodes[s[1]].particles[s[2]] = p}) = 1
              /\ m_mapping[p] \in Nodes
              /\ IsLeaf(m_mapping[p])
              /\ p \in Stored(m_mapping[p])
        /\ \A s \in Slots : /\ IsLeaf(s[1])
                            /\ m_nodes[s[1]].particles[s[2]] \in 0..(N - 1)
        /\ DOMAIN m_mapping = 0..(N - 1)

\* C4 witness: a tree of three particles in more than one leaf, the
\* partition having moved a particle from its place in the input.
CoverageWitness ==
    /\ Complete /\ N = 3 /\ m_num_nodes >= 3
    /\ \E k \in Nodes : IsLeaf(k) /\ m_nodes[k].num_particles >= 1
                        /\ m_nodes[k].particles[0] = 2 /\ k < m_num_nodes - 1

\* the nodes of the subtree of k, by its child links
RECURSIVE Subtree(_)
Subtree(k) ==
    IF IsLeaf(k) THEN {k}
    ELSE {k} \cup Subtree(m_nodes[k].left) \cup Subtree(m_nodes[k].right)

\* C5 -- linear layout: after buildTree every internal node at index k has
\* left = k + 1 and right > left, and its subtree is exactly k..k+skip.
LinearLayout ==
    Complete =>
        \A k \in Nodes : ~IsLeaf(k) =>
            /\ m_nodes[k].left = k + 1
            /\ m_nodes[k].right > m_nodes[k].left
            /\ m_nodes[k].right \in Nodes
            /\ Subtree(k) = k..(k + m_nodes[k].skip)

\* C5 witness: a tree with an internal node below the root.
LinearLayoutWitness ==
    /\ Complete /\ m_num_nodes >= 5
    /\ \E k \in Nodes : k # m_root /\ ~IsLeaf(k) /\ m_nodes[k].skip = 2

\* C6 -- skip: after buildTree, a rebuild in used slots included, every leaf
\* has skip 0 and every internal node has skip(left) + 1 + skip(right) + 1.
SkipCorrect ==
    Complete =>
        \A k \in Nodes :
            IF IsLeaf(k) THEN m_nodes[k].skip = 0
            ELSE m_nodes[k].skip = m_nodes[m_nodes[k].left].skip + 1
                                   + m_nodes[m_nodes[k].right].skip + 1

\* C6 witness: a tree of three nodes built in the slots of an earlier tree
\* of five, so that a slot that held an internal node now holds a leaf.
SkipCorrectWitness ==
    /\ Complete /\ m_num_nodes = 3 /\ node_capacity = 1
    /\ StaleNodes = {3, 4}
    /\ m_nodes[m_root].skip = 2

\* C7 -- update locality: update(p, new_obb) of a placed particle writes
\* new_obb into the box of nodes[mapping[p]] and changes nothing else.
UpdateLocal ==
    [][op' = "update" =>
          LET leaf == m_mapping[arg_idx']
          IN /\ m_nodes'[leaf].obb = arg_obb'
             /\ DOMAIN m_nodes' = DOMAIN m_nodes
             /\ \A k \in DOMAIN m_nodes : k # leaf => m_nodes'[k] = m_nodes[k]
             /\ [m_nodes'[leaf] EXCEPT !.obb = m_nodes[leaf].obb] = m_nodes[leaf]
             /\ m_num_nodes' = m_num_nodes
             /\ m_node_capacity' = m_node_capacity
             /\ m_root' = m_root
             /\ m_mapping' = m_mapping]_vars

\* C7 witness: an update gave a leaf below the root a box that its parent's
\* box does not enclose.
UpdateLocalWitness ==
    /\ op = "update" /\ m_num_nodes >= 3
    /\ LET leaf == m_mapping[arg_idx]
           up == m_nodes[leaf].parent
       IN /\ m_nodes[leaf].obb = arg_obb
          /\ up # OBB_INVALID_NODE
          /\ (m_nodes[up].obb.hi < arg_obb.hi \/ arg_obb.lo < m_nodes[up].obb.lo)

\* the fields of a node that have a value: the particles up to num_particles
NodeView(n) ==
    [obb |-> n.obb, left |-> n.left, right |-> n.right, parent |-> n.parent,
     skip |-> n.skip, num_particles |-> n.num_particles,
     particles |-> [i \in 0..(n.num_particles - 1) |-> n.particles[i]]]

\* C8 -- rebuild: after any sequence of buildTree calls (and updates, and
\* queries) num_nodes, root, mapping and the nodes below num_nodes are those
\* of one buildTree of the last input on a new tree.
RebuildEqualsFresh ==
    phase = "built" =>
        \A f \in {buildTree(NewTree, in_obbs, N, node_capacity, fit_axis, 0)} :
            /\ m_num_nodes = f.num
            /\ m_root = f.root
            /\ m_mapping = f.mapping
            /\ \A k \in Nodes : NodeView(m_nodes[k]) = NodeView(f.nodes[k])

\* C8 witness: a tree built in the slots of an earlier, larger tree, nodes of
\* which remain past the new tree.
RebuildWitness ==
    /\ phase = "built" /\ op = "buildTree" /\ N >= 1
    /\ \E k \in StaleNodes : m_nodes[k].num_particles >= 1 /\ m_nodes[k].parent < k

\* node k was allocated for an internal node whose writes were not reached
InProgress(k) ==
    /\ m_nodes[k].left = OBB_INVALID_NODE
    /\ m_nodes[k].num_particles = 0
    /\ ~m_nodes[k].obb.defined

\* C9 as stated -- after a failed allocation every allocated node's parent
\* is the node it was created under (INVALID for the node created without
\* one), and root is INVALID.
FailedParentsSet ==
    phase = "failed" =>
        /\ m_root = OBB_INVALID_NODE
        /\ \A k \in Nodes : m_nodes[k].parent = built_under[k]

\* C9 amended -- after a failed allocation root is INVALID, every node whose
\* buildNode call had returned has the node it was created under for a
\* parent, and every internal node whose children were being built still
\* has the parent INVALID of a new node.
FailedParentsPartial ==
    phase = "failed" =>
        /\ m_root = OBB_INVALID_NODE
        /\ \A k \in Nodes :
              /\ built_under[k] = OBB_INVALID_NODE \/ built_under[k] \in 0..(k - 1)
              /\ IF InProgress(k) THEN m_nodes[k].parent = OBB_INVALID_NODE
                 ELSE m_nodes[k].parent = built_under[k]

\* C9 witness: the allocation of the seventeenth node failed; a leaf has its
\* parent, an internal node created under another one has none.
FailedParentsWitness ==
    /\ phase = "failed" /\ m_num_nodes = SeedCapacity
    /\ \E k \in Nodes : InProgress(k) /\ built_under[k] # OBB_INVALID_NODE
    /\ \E k \in Nodes : ~InProgress(k) /\ m_nodes[k].parent # OBB_INVALID_NODE

\* the number of nodes on the way from node k down to node target by the
\* child links, 0 when target is not below k
RECURSIVE PathDown(_, _)
PathDown(k, target) ==
    IF k = target THEN 1
    ELSE IF IsLeaf(k) THEN 0
    ELSE LET l == PathDown(m_nodes[k].left, target)
         IN IF l > 0 THEN l + 1
            ELSE LET r == PathDown(m_nodes[k].right, target)
                 IN IF r > 0 THEN r + 1 ELSE 0

\* C10 -- height: for a placed particle height returns the number of nodes
\* from its leaf up to the root, which is 1 plus the child links from the
\* root down to the leaf; for an unplaced particle it returns 0.
HeightCounts ==
    op = "height" =>
        IF m_mapping[arg_idx] = OBB_INVALID_NODE THEN ret = 0
        ELSE /\ Complete /\ N >= 1
             /\ ret >= 1
             /\ ret = PathDown(m_root, m_mapping[arg_idx])
             /\ (m_mapping[arg_idx] = m_root <=> ret = 1)

\* C10 witness: the height of a particle two links below the root.
HeightWitness ==
    /\ op = "height" /\ Complete /\ ret = 3
    /\ m_nodes[m_nodes[m_mapping[arg_idx]].parent].parent = m_root

\* the nodes allocated by the calls buildNode made from the call of node k
CallsUnder(k) == {j \in Nodes : built_under[j] = k}

\* C11 -- build termination under the degeneracy guard: for N >= 1 and any
\* centers, coincident ones included, buildTree returns; the sweep of a
\* call with len > capacity makes at most len passes and leaves, after the
\* guard, 1 <= start_right <= len - 1; such a call makes two calls, on
\* [start, start + start_right) and on [start + start_right, start + len),
\* both non-empty and shorter than len; a call with len <= capacity makes
\* none.
BuildTerminates ==
    /\ phase # "diverged"
    /\ \A k \in Nodes :
          built_calls[k].len > node_capacity =>
              /\ built_calls[k].steps <= built_calls[k].len
              /\ built_calls[k].swept \in 0..built_calls[k].len
              /\ built_calls[k].start_right \in 1..(built_calls[k].len - 1)
    /\ (Complete /\ N >= 1) =>
          /\ built_calls[m_root] = [built_calls[m_root] EXCEPT !.start = 0, !.len = N]
          /\ \A k \in Nodes :
                LET c == built_calls[k]
                IN IF c.len <= node_capacity THEN CallsUnder(k) = {} /\ c.len >= 1
                   ELSE \E l, r \in CallsUnder(k) :
                           /\ l < r /\ CallsUnder(k) = {l, r}
                           /\ built_calls[l].start = c.start
                           /\ built_calls[l].len = c.start_right
                           /\ built_calls[r].start = c.start + c.start_right
                           /\ built_calls[r].len = c.len - c.start_right
                           /\ built_calls[l].len \in 1..(c.len - 1)
                           /\ built_calls[r].len \in 1..(c.len - 1)

\* C11 witness: three particles at one place, all swept to the left side;
\* the guard gave the right side one of them and the tree was built.
BuildTerminatesWitness ==
    /\ Complete /\ N = 3 /\ m_num_nodes = 5
    /\ \A p \in 0..(N - 1) : in_obbs[p] = in_obbs[0]
    /\ built_calls[m_root].len = 3
    /\ built_calls[m_root].steps = 3
    /\ built_calls[m_root].swept = 3
    /\ built_calls[m_root].start_right = 2

\* the nodes above node k by the parent links
RECURSIVE ProperAncestors(_)
ProperAncestors(k) ==
    IF m_nodes[k].parent = OBB_INVALID_NODE THEN {}
    ELSE {m_nodes[k].parent} \cup ProperAncestors(m_nodes[k].parent)

\* the nodes a recursive descent from node k tests against the box q, in
\* the order it tests them: k, and the subtrees of both children when k is
\* internal and overlaps q
RECURSIVE Descent(_, _)
Descent(k, q) ==
    IF IsLeaf(k) \/ ~Overlaps(m_nodes[k].obb, q) THEN <<k>>
    ELSE <<k>> \o Descent(m_nodes[k].left, q) \o Descent(m_nodes[k].right, q)

\* C12 -- stackless pruning equals recursive descent: on a built tree query
\* tests the nodes the recursive descent from the root tests, in its
\* order, which is increasing arena index, each once and all below
\* num_nodes; they are the nodes whose proper ancestors all overlap the
\* query box, none lies below a tested node that does not overlap, and
\* query returns their number.
PruningEqualsDescent ==
    (op = "query" /\ Complete) =>
        /\ tested = Descent(m_root, arg_obb)
        /\ ret = Len(tested)
        /\ \A i \in 1..Len(tested) : tested[i] \in Nodes
        /\ \A i, j \in 1..Len(tested) : i < j => tested[i] < tested[j]
        /\ \A k \in Nodes :
              k \in Range(tested) <=>
                  \A a \in ProperAncestors(k) : Overlaps(m_nodes[a].obb, arg_obb)
        /\ \A k \in Range(tested) :
              (~IsLeaf(k) /\ ~Overlaps(m_nodes[k].obb, arg_obb)) =>
                  \A j \in Nodes : k \in ProperAncestors(j) => j \notin Range(tested)

\* C12 witness: a query that tested an internal node below the root, found
\* no overlap, left its subtree out and went on with the node after it.
PruningWitness ==
    /\ op = "query" /\ Complete /\ ret < m_num_nodes
    /\ \E i \in 2..(Len(tested) - 1) :
          /\ ~IsLeaf(tested[i])
          /\ ~Overlaps(m_nodes[tested[i]].obb, arg_obb)
          /\ tested[i + 1] = tested[i] + m_nodes[tested[i]].skip + 1
          /\ Overlaps(m_nodes[tested[i + 1]].obb, arg_obb)

====
